---- MODULE Spec2Model ----
(***************************************************************************)
(* Model of the obsidian-expense-tracker plugin: the markdown line filter  *)
(* (ExpenseTracker.filterMarkdown), the refresh cycle                      *)
(* (ExpenseTracker.refreshLedger), and the Ledger class (parseFiles, add,  *)
(* flush, export).                                                         *)
(*                                                                         *)
(* Text is a sequence of elements.  An element is one character, written   *)
(* as a one-character string, or a date token: a ten-character text of the *)
(* shape \d{4}-\d{2}-\d{2}, written as one string such as "2023-04-01".    *)
(***************************************************************************)
EXTENDS Integers, Sequences, FiniteSets, TLC

VARIABLES
    markdown,        \* filterMarkdown: its argument
    filteredLines,   \* filterMarkdown: its return value (NoValue before the call)
    aliasLine,       \* parseFiles: the line whose aliases are substituted
    lineToParse,     \* parseFiles: the text handed to costflow.parse
    vault,           \* the markdown files of the ledger folder (their contents)
    accounts,        \* Ledger.config.account, as a sequence of <<key, path>>
    journalEntries,  \* Ledger.journalEntries
    reading,         \* refreshLedger calls suspended at `await Promise.all(...)`
    cycle,           \* number of refreshLedger calls that have flushed so far
    calls,           \* number of refreshLedger (or direct parseFiles) calls so far
    parses,          \* costflow.parse calls that have not settled yet
    modals,          \* open ExportModals, each tagged with the cycle awaited
    loaded,          \* FALSE once onunload has run
    ingested,        \* number of lines handed to parseFiles called directly
    settledLog,      \* history: the parses settled since the last flush, in order
    lastOp           \* the operation performed by the last step, with what
                     \* it returned or raised

vars == <<markdown, filteredLines, aliasLine, lineToParse, vault, accounts,
          journalEntries, reading, cycle, calls, parses, modals, loaded,
          ingested, settledLog, lastOp>>

NoValue == "NoValue"

-----------------------------------------------------------------------------
(* Characters *)

DateTokens == {"2023-03-31", "2023-04-01"}

LineTerminators == {"\n", "\r"}

\* \s of a JavaScript regular expression, and what String.trim strips
WhiteSpace == {" ", "\n", "\r"}

\* \w of a JavaScript regular expression: letters, and the digits a date
\* token starts and ends with
Letters == {"a", "b", "c", "e", "o", "t"}

IsWordChar(c) == c \in Letters \cup DateTokens

IsSpace(c) == c \in WhiteSpace

-----------------------------------------------------------------------------
(* Sequence helpers *)

RECURSIVE Flatten(_)
Flatten(ss) == IF ss = <<>> THEN <<>> ELSE Head(ss) \o Flatten(Tail(ss))

Range(s) == {s[i] : i \in 1..Len(s)}

\* all sequences over S of length at most n
SeqsUpTo(S, n) == UNION {[1..k -> S] : k \in 0..n}

-----------------------------------------------------------------------------
(* String.split('\n'), String.trim, String.replace(/^-/, "") *)

RECURSIVE SplitFrom(_, _, _)
SplitFrom(s, i, cur) ==
    IF i > Len(s) THEN <<cur>>
    ELSE IF s[i] = "\n" THEN <<cur>> \o SplitFrom(s, i + 1, <<>>)
    ELSE SplitFrom(s, i + 1, Append(cur, s[i]))

Split(s) == SplitFrom(s, 1, <<>>)

RECURSIVE TrimStart(_)
TrimStart(s) ==
    IF s # <<>> /\ IsSpace(Head(s)) THEN TrimStart(Tail(s)) ELSE s

RECURSIVE TrimEnd(_)
TrimEnd(s) ==
    IF s # <<>> /\ IsSpace(s[Len(s)]) THEN TrimEnd(SubSeq(s, 1, Len(s) - 1)) ELSE s

Trim(s) == TrimEnd(TrimStart(s))

RemoveFirstDash(s) == IF s # <<>> /\ Head(s) = "-" THEN Tail(s) ELSE s

-----------------------------------------------------------------------------
(* ExpenseTracker.filterMarkdown *)

\* ^ under the m flag: the start of the text or just after a line terminator
AtLineStart(line, p) == p = 1 \/ line[p - 1] \in LineTerminators

\* /^\s*[-*]\s(\d{4}-\d{2}-\d{2}).*(>).*$/gm has a match in `line`: p is where
\* ^ matches, q the list marker, r the > character; the trailing .*$ always
\* matches (it stops at the end of the text or before a line terminator).
RegexMatches(line) ==
    \E p \in 1..Len(line) : \E q \in p..Len(line) : \E r \in (q + 3)..Len(line) :
        /\ AtLineStart(line, p)
        /\ \A i \in p..(q - 1) : IsSpace(line[i])
        /\ line[q] \in {"-", "*"}
        /\ IsSpace(line[q + 1])
        /\ line[q + 2] \in DateTokens
        /\ \A i \in (q + 3)..(r - 1) : line[i] \notin LineTerminators
        /\ line[r] = ">"

StripLine(line) == Trim(RemoveFirstDash(Trim(line)))

RECURSIVE FilterLines(_)
FilterLines(lines) ==
    IF lines = <<>> THEN <<>>
    ELSE IF RegexMatches(Head(lines))
         THEN <<StripLine(Head(lines))>> \o FilterLines(Tail(lines))
         ELSE FilterLines(Tail(lines))

filterMarkdown(md) == FilterLines(Split(md))

-----------------------------------------------------------------------------
(* Ledger.parseFiles: account aliases (the keys.forEach loop) *)

\* \b of a JavaScript regular expression, seen before element p of s
WordBoundary(s, p) ==
    (p > 1 /\ p - 1 <= Len(s) /\ IsWordChar(s[p - 1]))
        # (p <= Len(s) /\ IsWordChar(s[p]))

\* new RegExp("\\b" + key + ":", "g") matches s at position p
AliasMatchAt(s, key, p) ==
    /\ p + Len(key) <= Len(s)
    /\ WordBoundary(s, p)
    /\ SubSeq(s, p, p + Len(key) - 1) = key
    /\ s[p + Len(key)] = ":"

\* s.replace(regex, path + ":"): every match, left to right, not overlapping
RECURSIVE ReplaceFrom(_, _, _, _)
ReplaceFrom(s, key, path, p) ==
    IF p > Len(s) THEN <<>>
    ELSE IF AliasMatchAt(s, key, p)
         THEN path \o <<":">> \o ReplaceFrom(s, key, path, p + Len(key) + 1)
         ELSE <<s[p]>> \o ReplaceFrom(s, key, path, p + 1)

ReplaceAlias(s, key, path) == ReplaceFrom(s, key, path, 1)

\* the keys.forEach loop: one replace per key, in Object.keys order, each on
\* the text the previous one produced
RECURSIVE ApplyAliases(_, _)
ApplyAliases(line, accts) ==
    IF accts = <<>> THEN line
    ELSE ApplyAliases(ReplaceAlias(line, Head(accts).key, Head(accts).path),
                      Tail(accts))

-----------------------------------------------------------------------------
(* Dates *)

\* a Date: its time value in days since 1970-01-01, or an Invalid Date
\* (time value NaN), which is also how a date the modal never set compares
InvalidDate == [valid |-> FALSE, day |-> 0]

ValidDate(n) == [valid |-> TRUE, day |-> n]

\* new Date(text) of a YYYY-MM-DD text (UTC midnight), else Invalid Date
NewDate(text) ==
    CASE text = "2023-03-31" -> ValidDate(19447)
      [] text = "2023-04-01" -> ValidDate(19448)
      [] OTHER -> InvalidDate

\* DateGeq with > in place of >=
DateGt(a, b) == a.valid /\ b.valid /\ a.day > b.day

\* a >= b and a <= b on Dates: false when either time value is NaN
DateGeq(a, b) == a.valid /\ b.valid /\ a.day >= b.day

DateLeq(a, b) == a.valid /\ b.valid /\ a.day <= b.day

-----------------------------------------------------------------------------
(* costflow.parse: the external parser, a function of the text it is given. *)
(* The promise it returns is rejected, or fulfilled with an Error (no       *)
(* links), a generic Result (no links) or a TransactionResult.              *)

Postings ==
    << [account |-> "Assets:Cash", amount |-> -150, currency |-> "PHP"],
       [account |-> "Expenses:Needs:Food", amount |-> 150, currency |-> "PHP"] >>

costflow_parse(text) ==
    IF "t" \in Range(text) THEN [status |-> "rejected"]
    ELSE IF "e" \in Range(text) \/ text = <<>> \/ Head(text) \notin DateTokens
    THEN [status |-> "fulfilled", value |-> [error |-> "INVALID"]]
    ELSE IF "o" \in Range(text)
    THEN [status |-> "fulfilled",
          value |-> [date |-> Head(text), directive |-> "open",
                     data |-> <<>>, output |-> text]]
    ELSE [status |-> "fulfilled",
          value |-> [date |-> Head(text), directive |-> "transaction",
                     payee |-> "", narration |-> SelectSeq(text, IsWordChar),
                     tags |-> <<>>, links |-> <<>>,
                     data |-> Postings, output |-> text]]

-----------------------------------------------------------------------------
(* Ledger *)

isTransactionResult(obj) == "links" \in DOMAIN obj

\* flush that leaves this.journalEntries as it is
flush_noop(journal) == journal

flush(journal) == <<>>

\* add that stores each amount without its sign
add_unsigned(journal, entry) ==
    Append(journal,
           [beancount |-> entry.output,
            transactions |-> [i \in 1..Len(entry.data) |->
                                 [account |-> entry.data[i].account,
                                  amount |-> IF entry.data[i].amount < 0
                                             THEN 0 - entry.data[i].amount
                                             ELSE entry.data[i].amount]],
            date |-> NewDate(entry.date),
            links |-> entry.links,
            narration |-> entry.narration,
            payee |-> entry.payee,
            tags |-> entry.tags])

add(journal, entry) ==
    Append(journal,
           [beancount |-> entry.output,
            transactions |-> [i \in 1..Len(entry.data) |->
                                 [account |-> entry.data[i].account,
                                  amount |-> entry.data[i].amount]],
            date |-> NewDate(entry.date),
            links |-> entry.links,
            narration |-> entry.narration,
            payee |-> entry.payee,
            tags |-> entry.tags])

\* the forEach loop of export, from entry i on
RECURSIVE ExportFrom(_, _, _, _)
ExportFrom(journal, i, startDate, endDate) ==
    IF i > Len(journal) THEN <<>>
    ELSE (IF DateGeq(journal[i].date, startDate) /\ DateLeq(journal[i].date, endDate)
          THEN journal[i].beancount \o <<"\n", "\n">>
          ELSE <<>>)
         \o ExportFrom(journal, i + 1, startDate, endDate)

\* export that takes the entries out of the journal as it goes
export_drain(journal, startDate, endDate) ==
    [result |-> ExportFrom(journal, 1, startDate, endDate),
     journalEntries |-> <<>>]

\* export: the string it returns and this.journalEntries when it returns
export(journal, startDate, endDate) ==
    [result |-> ExportFrom(journal, 1, startDate, endDate),
     journalEntries |-> journal]

\* a per-line callback that gives up the journal when its line fails
afterParse_abort(journal, settled) ==
    IF settled.status = "fulfilled" /\ isTransactionResult(settled.value)
    THEN add(journal, settled.value)
    ELSE IF settled.status = "fulfilled" /\ "date" \in DOMAIN settled.value
    THEN journal
    ELSE <<>>

\* the body of the per-line callback after `await costflow.parse(...)`:
\* this.journalEntries once the promise `settled` has been handled
afterParse(journal, settled) ==
    IF settled.status = "fulfilled" /\ isTransactionResult(settled.value)
    THEN add(journal, settled.value)
    ELSE journal

\* the per-line callbacks of one parseFiles(lines) call: the text each hands
\* to costflow.parse
parseFiles(lines, accts) ==
    [i \in 1..Len(lines) |-> ApplyAliases(lines[i], accts)]

-----------------------------------------------------------------------------
(* The plugin: inputs *)

\* refreshLedger calls (timer ticks and commands) in one run
MaxRefresh == 2

\* "- 2023-03-31>a:" and "- 2023-04-01>b": two transactions
NoteTwo ==
    <<"-", " ", "2023-03-31", ">", "a", ":", "\n",
      "-", " ", "2023-04-01", ">", "b">>

\* CRLF line ends: a line costflow answers with an Error, a line that is no
\* list item, and an indented list item that is a transaction
NoteMixed ==
    <<"-", " ", "2023-04-01", ">", "e", "\r", "\n",
      "c", " ", ">", "\r", "\n",
      " ", "-", " ", "2023-03-31", " ", ">", "c">>

\* a line on which costflow.parse rejects, and a transaction
NoteThrow ==
    <<"-", " ", "2023-04-01", ">", "t", "\n",
      "-", " ", "2023-03-31", ">", "b">>

NoteOne == <<"-", " ", "2023-04-01", ">", "c">>

\* a directive costflow answers with a generic Result
NoteOpen == <<"-", " ", "2023-03-31", ">", "o">>

Vaults == { <<>>, <<NoteTwo>>, <<NoteMixed>>, <<NoteThrow>>, <<NoteOne, NoteOpen>> }

\* the alias setting "a = c:b"
DefaultAccounts == << [key |-> <<"a">>, path |-> <<"c", ":", "b">>] >>

\* what the two date fields of the ExportModal can hold when Submit is pressed
ModalDates == {NewDate(t) : t \in DateTokens \cup {""}}

-----------------------------------------------------------------------------
(* The plugin: actions *)

\* the costflow.parse calls one refreshLedger makes: fileContents.forEach
\* over parseFiles(filterMarkdown(content)), tagged with the cycle
Dispatch(files, accts, c) ==
    UNION { { [cycle |-> c, file |-> f, idx |-> i,
               text |-> parseFiles(filterMarkdown(files[f]), accts)[i]]
              : i \in 1..Len(filterMarkdown(files[f])) }
            : f \in 1..Len(files) }

Init ==
    /\ markdown = NoValue
    /\ filteredLines = NoValue
    /\ aliasLine = NoValue
    /\ lineToParse = NoValue
    /\ vault \in Vaults
    /\ accounts = DefaultAccounts
    /\ journalEntries = flush(<<>>)
    /\ reading = [plain |-> 0, export |-> 0]
    /\ cycle = 0
    /\ calls = 0
    /\ parses = {}
    /\ modals = {}
    /\ loaded = TRUE
    /\ ingested = 0
    /\ settledLog = <<>>
    /\ lastOp = [op |-> "onload"]

\* the interval timer or the refresh-ledger command calls refreshLedger, which
\* runs up to `await Promise.all(...)`
RefreshLedger ==
    /\ loaded
    /\ calls < MaxRefresh
    /\ calls' = calls + 1
    /\ reading' = [reading EXCEPT !.plain = @ + 1]
    /\ lastOp' = [op |-> "refreshLedger"]
    /\ UNCHANGED <<ingested,
                   markdown, filteredLines, aliasLine, lineToParse, vault,
                   accounts, journalEntries, cycle, parses, modals, loaded, settledLog>>

\* the export-ledger command calls refreshLedger and awaits it
ExportCommand ==
    /\ loaded
    /\ calls < MaxRefresh
    /\ calls' = calls + 1
    /\ reading' = [reading EXCEPT !.export = @ + 1]
    /\ lastOp' = [op |-> "exportCommand"]
    /\ UNCHANGED <<ingested,
                   markdown, filteredLines, aliasLine, lineToParse, vault,
                   accounts, journalEntries, cycle, parses, modals, loaded, settledLog>>

\* a refreshLedger call resumes after the reads: flush, then one parseFiles
\* per file, none of them awaited; its promise resolves, and the export
\* command that awaited it opens its modal
RefreshResume(kind) ==
    /\ reading[kind] > 0
    /\ reading' = [reading EXCEPT ![kind] = @ - 1]
    /\ cycle' = cycle + 1
    /\ journalEntries' = flush(journalEntries)
    /\ parses' = parses \cup Dispatch(vault, accounts, cycle + 1)
    /\ modals' = IF kind = "export" THEN modals \cup {cycle + 1} ELSE modals
    /\ settledLog' = <<>>
    /\ lastOp' = [op |-> "refresh", cycle |-> cycle + 1, kind |-> kind,
                  before |-> Len(journalEntries)]
    /\ UNCHANGED <<ingested,
                   markdown, filteredLines, aliasLine, lineToParse, vault,
                   accounts, calls, loaded>>

\* one costflow.parse promise settles and its per-line callback resumes
ParseSettle(t) ==
    /\ t \in parses
    /\ parses' = parses \ {t}
    /\ journalEntries' = afterParse(journalEntries, costflow_parse(t.text))
    /\ settledLog' = Append(settledLog, t)
    /\ lastOp' = [op |-> "settle", task |-> t, before |-> Len(journalEntries),
                  unhandledRejection |-> costflow_parse(t.text).status = "rejected"]
    /\ UNCHANGED <<ingested,
                   markdown, filteredLines, aliasLine, lineToParse, vault,
                   accounts, reading, cycle, calls, modals, loaded>>

\* Submit in an ExportModal: close, then the onSubmit callback calls export
Submit(m, startDate, endDate) ==
    /\ m \in modals
    /\ modals' = modals \ {m}
    /\ journalEntries' = export(journalEntries, startDate, endDate).journalEntries
    /\ lastOp' = [op |-> "export", cycle |-> m, startDate |-> startDate,
                  endDate |-> endDate,
                  result |-> export(journalEntries, startDate, endDate).result]
    /\ UNCHANGED <<ingested,
                   markdown, filteredLines, aliasLine, lineToParse, vault,
                   accounts, reading, cycle, calls, parses, loaded,
                   settledLog>>

\* an ExportModal is dismissed without Submit
CloseModal(m) ==
    /\ m \in modals
    /\ modals' = modals \ {m}
    /\ lastOp' = [op |-> "closeModal"]
    /\ UNCHANGED <<ingested,
                   markdown, filteredLines, aliasLine, lineToParse, vault,
                   accounts, journalEntries, reading, cycle, calls, parses,
                   loaded, settledLog>>

\* onunload: flush; the timer and the commands are gone, calls in flight go on
OnUnload ==
    /\ loaded
    /\ loaded' = FALSE
    /\ journalEntries' = flush(journalEntries)
    /\ settledLog' = <<>>
    /\ lastOp' = [op |-> "onunload", before |-> Len(journalEntries)]
    /\ UNCHANGED <<ingested,
                   markdown, filteredLines, aliasLine, lineToParse, vault,
                   accounts, reading, cycle, calls, parses, modals>>

Next ==
    \/ RefreshLedger
    \/ ExportCommand
    \/ \E kind \in {"plain", "export"} : RefreshResume(kind)
    \/ \E t \in parses : ParseSettle(t)
    \/ \E m \in modals : \E s \in ModalDates : \E e \in ModalDates : Submit(m, s, e)
    \/ \E m \in modals : CloseModal(m)
    \/ OnUnload

Spec == Init /\ [][Next]_vars

-----------------------------------------------------------------------------
(* The Ledger on its own: parseFiles, flush and export called in any order, *)
(* the parses settling whenever they do                                     *)

\* lines handed to parseFiles in one run, over all calls
MaxIngested == 2

\* candidate lines as filterMarkdown returns them: two transactions, a line
\* costflow rejects, one it answers with an Error, one with a generic Result
LedgerLines ==
    { <<"2023-03-31", ">", "a", ":">>, <<"2023-04-01", ">", "b">>,
      <<"2023-04-01", ">", "t">>, <<"2023-04-01", ">", "e">>,
      <<"2023-03-31", ">", "o">> }

InitLedger ==
    /\ markdown = NoValue
    /\ filteredLines = NoValue
    /\ aliasLine = NoValue
    /\ lineToParse = NoValue
    /\ vault = <<>>
    /\ accounts = DefaultAccounts
    /\ journalEntries = flush(<<>>)
    /\ reading = [plain |-> 0, export |-> 0]
    /\ cycle = 0
    /\ calls = 0
    /\ parses = {}
    /\ modals = {}
    /\ loaded = TRUE
    /\ ingested = 0
    /\ settledLog = <<>>
    /\ lastOp = [op |-> "new"]

\* parseFiles(lines): one costflow.parse call per line, none awaited
LedgerParseFiles(lines) ==
    /\ lines # <<>>
    /\ ingested + Len(lines) <= MaxIngested
    /\ ingested' = ingested + Len(lines)
    /\ calls' = calls + 1
    /\ parses' = parses \cup
          { [cycle |-> calls + 1, file |-> 1, idx |-> i,
             text |-> parseFiles(lines, accounts)[i]] : i \in 1..Len(lines) }
    /\ lastOp' = [op |-> "parseFiles"]
    /\ UNCHANGED <<markdown, filteredLines, aliasLine, lineToParse, vault,
                   accounts, journalEntries, reading, cycle, modals, loaded,
                   settledLog>>

LedgerFlush ==
    /\ journalEntries' = flush(journalEntries)
    /\ settledLog' = <<>>
    /\ lastOp' = [op |-> "flush", before |-> Len(journalEntries)]
    /\ UNCHANGED <<markdown, filteredLines, aliasLine, lineToParse, vault,
                   accounts, reading, cycle, calls, parses, modals, loaded,
                   ingested>>

LedgerExport(startDate, endDate) ==
    /\ journalEntries' = export(journalEntries, startDate, endDate).journalEntries
    /\ lastOp' = [op |-> "export", startDate |-> startDate, endDate |-> endDate,
                  result |-> export(journalEntries, startDate, endDate).result]
    /\ UNCHANGED <<markdown, filteredLines, aliasLine, lineToParse, vault,
                   accounts, reading, cycle, calls, parses, modals, loaded,
                   ingested, settledLog>>

NextLedger ==
    \/ \E lines \in SeqsUpTo(LedgerLines, MaxIngested) : LedgerParseFiles(lines)
    \/ \E t \in parses : ParseSettle(t)
    \/ LedgerFlush
    \/ \E s \in ModalDates : \E e \in ModalDates : LedgerExport(s, e)

SpecLedger == InitLedger /\ [][NextLedger]_vars

-----------------------------------------------------------------------------
(* filterMarkdown on its own: every short markdown text, and the notes *)

MaxMarkdownLen == 5

FilterChars == {"-", "*", " ", "\n", "2023-04-01", ">", "c"}

NoteStar ==
    <<"*", " ", "2023-03-31", ">", "b", "\n",
      "-", " ", "2023-04-01", ">", "c">>

MarkdownInputs ==
    SeqsUpTo(FilterChars, MaxMarkdownLen)
        \cup {NoteTwo, NoteMixed, NoteThrow, NoteOne, NoteOpen, NoteStar}

InitFilter ==
    /\ markdown \in MarkdownInputs
    /\ filteredLines = NoValue
    /\ aliasLine = NoValue
    /\ lineToParse = NoValue
    /\ vault = <<>>
    /\ accounts = DefaultAccounts
    /\ journalEntries = <<>>
    /\ reading = [plain |-> 0, export |-> 0]
    /\ cycle = 0
    /\ calls = 0
    /\ parses = {}
    /\ modals = {}
    /\ loaded = TRUE
    /\ ingested = 0
    /\ settledLog = <<>>
    /\ lastOp = [op |-> "onload"]

CallFilterMarkdown ==
    /\ filteredLines = NoValue
    /\ filteredLines' = filterMarkdown(markdown)
    /\ lastOp' = [op |-> "filterMarkdown"]
    /\ UNCHANGED <<ingested,
                   markdown, aliasLine, lineToParse, vault, accounts,
                   journalEntries, reading, cycle, calls, parses, modals,
                   loaded, settledLog>>

NextFilter == CallFilterMarkdown

SpecFilter == InitFilter /\ [][NextFilter]_vars

-----------------------------------------------------------------------------
(* The alias loop of parseFiles on its own: every short line, under every  *)
(* mapping of one or two aliases                                            *)

MaxAliasLen == 4

AliasChars == {"a", "b", ":", " "}

AliasKeys == { <<"a">>, <<"b">>, <<"a", "b">> }

AliasPaths == { <<"c">>, <<"b">>, <<"c", ":", "b">> }

AliasEntries == [key : AliasKeys, path : AliasPaths]

\* Object.keys order; a record holds a key once
AliasConfigs ==
    { <<x>> : x \in AliasEntries }
        \cup { <<x, y>> : <<x, y>> \in
                 {z \in AliasEntries \X AliasEntries : z[1].key # z[2].key} }

InitAlias ==
    /\ markdown = NoValue
    /\ filteredLines = NoValue
    /\ aliasLine \in SeqsUpTo(AliasChars, MaxAliasLen)
    /\ lineToParse = NoValue
    /\ vault = <<>>
    /\ accounts \in AliasConfigs
    /\ journalEntries = <<>>
    /\ reading = [plain |-> 0, export |-> 0]
    /\ cycle = 0
    /\ calls = 0
    /\ parses = {}
    /\ modals = {}
    /\ loaded = TRUE
    /\ ingested = 0
    /\ settledLog = <<>>
    /\ lastOp = [op |-> "onload"]

CallParseFiles ==
    /\ lineToParse = NoValue
    /\ lineToParse' = parseFiles(<<aliasLine>>, accounts)[1]
    /\ lastOp' = [op |-> "parseFiles"]
    /\ UNCHANGED <<ingested,
                   markdown, filteredLines, aliasLine, vault, accounts,
                   journalEntries, reading, cycle, calls, parses, modals,
                   loaded, settledLog>>

NextAlias == CallParseFiles

SpecAlias == InitAlias /\ [][NextAlias]_vars

-----------------------------------------------------------------------------
(* Claims about filterMarkdown (SpecFilter) *)

\* the candidate shape: after leading whitespace, a list marker, whitespace,
\* a date token, and a later > character
CandidateShape(line) ==
    LET t == TrimStart(line)
    IN  /\ Len(t) >= 4
        /\ t[1] \in {"-", "*"}
        /\ IsSpace(t[2])
        /\ t[3] \in DateTokens
        /\ \E r \in 4..Len(t) : t[r] = ">"

\* a candidate line with its list marker removed and trimmed
WithoutMarker(line) == Trim(Tail(TrimStart(line)))

RECURSIVE ClaimedFilter(_)
ClaimedFilter(lines) ==
    IF lines = <<>> THEN <<>>
    ELSE IF CandidateShape(Head(lines))
         THEN <<WithoutMarker(Head(lines))>> \o ClaimedFilter(Tail(lines))
         ELSE ClaimedFilter(Tail(lines))

\* C5: filterMarkdown returns, in line order, exactly the candidate lines,
\* each with its list marker removed: every returned string starts with the
\* date token, has no leading - or * and no surrounding whitespace.
C5_FilterStripsListMarker ==
    filteredLines # NoValue =>
        /\ filteredLines = ClaimedFilter(Split(markdown))
        /\ \A i \in 1..Len(filteredLines) :
              /\ filteredLines[i] # <<>>
              /\ Head(filteredLines[i]) \in DateTokens
              /\ ~IsSpace(filteredLines[i][Len(filteredLines[i])])

-----------------------------------------------------------------------------
(* Claims about the alias loop (SpecAlias) *)

\* the alias whose whole-word "<key>:" starts at position p of the line
AliasesAt(line, accts, p) ==
    {i \in 1..Len(accts) : AliasMatchAt(line, accts[i].key, p)}

\* the line with every whole-word occurrence of "<key>:" in it replaced by
\* "<path>:", everything else left as it is
RECURSIVE ExpandFrom(_, _, _)
ExpandFrom(line, accts, p) ==
    IF p > Len(line) THEN <<>>
    ELSE IF AliasesAt(line, accts, p) # {}
         THEN LET i == CHOOSE j \in AliasesAt(line, accts, p) : TRUE
              IN  accts[i].path \o <<":">>
                      \o ExpandFrom(line, accts, p + Len(accts[i].key) + 1)
         ELSE <<line[p]>> \o ExpandFrom(line, accts, p + 1)

ExpandWholeWords(line, accts) == ExpandFrom(line, accts, 1)

\* C6: the text forwarded to the parser is the input line with every
\* whole-word occurrence of "<key>:" replaced by "<path>:", for each alias
\* key, and every other token left unchanged.
C6_ForwardedIsLineWithAliasesReplaced ==
    lineToParse # NoValue => lineToParse = ExpandWholeWords(aliasLine, accounts)

-----------------------------------------------------------------------------
(* Claims about the plugin (Spec): helpers *)

Accepted(text) ==
    /\ costflow_parse(text).status = "fulfilled"
    /\ "links" \in DOMAIN costflow_parse(text).value

\* the journal entry of an accepted line
EntryOf(text) == add(<<>>, costflow_parse(text).value)[1]

RECURSIVE EntriesOfTexts(_)
EntriesOfTexts(texts) ==
    IF texts = <<>> THEN <<>>
    ELSE (IF Accepted(Head(texts)) THEN <<EntryOf(Head(texts))>> ELSE <<>>)
         \o EntriesOfTexts(Tail(texts))

\* the texts one refresh cycle hands to the parser, in file and line order
CycleTexts(files, accts) ==
    Flatten([f \in 1..Len(files) |->
                [i \in 1..Len(filterMarkdown(files[f])) |->
                    ApplyAliases(filterMarkdown(files[f])[i], accts)]])

\* one entry per accepted candidate line of a refresh cycle, in input order
CycleEntries(files, accts) == EntriesOfTexts(CycleTexts(files, accts))

Count(seq, x) == Cardinality({i \in 1..Len(seq) : seq[i] = x})

SameEntries(a, b) ==
    /\ Len(a) = Len(b)
    /\ \A x \in Range(a) \cup Range(b) : Count(a, x) = Count(b, x)

InRange(d, startDate, endDate) ==
    /\ d.valid /\ startDate.valid /\ endDate.valid
    /\ startDate.day <= d.day
    /\ d.day <= endDate.day

\* the concatenation, in journal order, of (beancount followed by a blank
\* line) for the entries dated within [startDate, endDate]
ClaimedExport(journal, startDate, endDate) ==
    LET Qualifies(entry) == InRange(entry.date, startDate, endDate)
        chosen == SelectSeq(journal, Qualifies)
    IN  Flatten([i \in 1..Len(chosen) |-> chosen[i].beancount \o <<"\n", "\n">>])

-----------------------------------------------------------------------------
(* Claims about the plugin (Spec) *)

\* C1: export(start, end) returns the concatenation, in journal order, of
\* (beancount, blank line) for exactly the entries with start <= date <= end,
\* both ends included, and the empty string when no entry qualifies.
C1_ExportIsInclusiveRangeInJournalOrder ==
    /\ \A s \in ModalDates : \A e \in ModalDates :
          export(journalEntries, s, e).result = ClaimedExport(journalEntries, s, e)
    /\ lastOp.op = "export" =>
          lastOp.result = ClaimedExport(journalEntries, lastOp.startDate, lastOp.endDate)

\* an export over [d, d] that returned the entry dated d and left out an
\* entry dated one day before d; and one that left out an entry one day after
C1_Witness ==
    /\ lastOp.op = "export"
    /\ lastOp.startDate.valid
    /\ lastOp.startDate = lastOp.endDate
    /\ lastOp.result # <<>>
    /\ \E i \in 1..Len(journalEntries) : journalEntries[i].date = lastOp.startDate
    /\ \E i \in 1..Len(journalEntries) :
          /\ journalEntries[i].date.valid
          /\ journalEntries[i].date.day + 1 = lastOp.startDate.day

\* C2: once no parse is outstanding, the journal holds exactly one entry per
\* accepted candidate line of the most recent refresh cycle: nothing from an
\* earlier cycle and nothing twice.
C2_JournalIsLastCycleOnly ==
    (loaded /\ cycle > 0 /\ parses = {}) =>
        SameEntries(journalEntries, CycleEntries(vault, accounts))

\* the texts of the lines 1..Len(log) of a call, in line order, given the log
\* of their parses
TextsInLineOrder(log) ==
    [k \in 1..Len(log) |-> (CHOOSE t \in Range(log) : t.idx = k).text]

\* C3: after a parseFiles call on lines that are all accepted, every parse
\* settled and no flush in between, the journal order is the input line
\* order, in whatever order the parses settled.
C3_JournalOrderIsLineOrder ==
    (/\ parses = {}
     /\ settledLog # <<>>
     /\ \A i \in 1..Len(settledLog) :
           /\ settledLog[i].cycle = settledLog[1].cycle
           /\ Accepted(settledLog[i].text)
     /\ {settledLog[i].idx : i \in 1..Len(settledLog)} = 1..Len(settledLog))
        => journalEntries = EntriesOfTexts(TextsInLineOrder(settledLog))

\* C4: a settled parse appends if and only if its result carries links, and
\* then exactly one entry with the result's date, payee, narration, tags,
\* links, output and (account, amount) postings.
C4_AppendIffTransactionResult ==
    lastOp.op = "settle" =>
        LET p == costflow_parse(lastOp.task.text)
            n == Len(journalEntries)
        IN  IF p.status = "fulfilled" /\ "links" \in DOMAIN p.value
            THEN /\ n = lastOp.before + 1
                 /\ journalEntries[n].date = NewDate(p.value.date)
                 /\ journalEntries[n].payee = p.value.payee
                 /\ journalEntries[n].narration = p.value.narration
                 /\ journalEntries[n].tags = p.value.tags
                 /\ journalEntries[n].links = p.value.links
                 /\ journalEntries[n].beancount = p.value.output
                 /\ Len(journalEntries[n].transactions) = Len(p.value.data)
                 /\ \A i \in 1..Len(p.value.data) :
                       /\ journalEntries[n].transactions[i].account
                              = p.value.data[i].account
                       /\ journalEntries[n].transactions[i].amount
                              = p.value.data[i].amount
            ELSE n = lastOp.before

\* a transaction result has just been appended to a non-empty journal
C4_Witness ==
    /\ lastOp.op = "settle"
    /\ Accepted(lastOp.task.text)
    /\ lastOp.before > 0
    /\ Len(journalEntries) = lastOp.before + 1

\* C7: flush leaves the journal empty whatever it held, a second flush
\* changes nothing, and export right after flush returns the empty string
\* for every range.
C7_FlushEmptiesAndIsIdempotent ==
    lastOp.op \in {"flush", "onunload", "refresh"} =>
        /\ journalEntries = <<>>
        /\ flush(journalEntries) = journalEntries
        /\ \A s \in ModalDates : \A e \in ModalDates :
              export(journalEntries, s, e).result = <<>>

\* a flush of a journal that held entries
C7_Witness ==
    /\ lastOp.op \in {"flush", "onunload", "refresh"}
    /\ lastOp.before > 0
    /\ journalEntries = <<>>

\* C8: export changes neither the journal nor the configuration, and two
\* exports in a row over the same range return the same string.
C8_ExportIsReadOnly ==
    [][lastOp'.op = "export" =>
          /\ journalEntries' = journalEntries
          /\ accounts' = accounts
          /\ (/\ lastOp.op = "export"
              /\ lastOp.startDate = lastOp'.startDate
              /\ lastOp.endDate = lastOp'.endDate) => lastOp'.result = lastOp.result]_vars

\* an export that returned entries of a journal it left in place
C8_Witness ==
    /\ lastOp.op = "export"
    /\ lastOp.result # <<>>
    /\ journalEntries # <<>>
    /\ lastOp.result = export(journalEntries, lastOp.startDate, lastOp.endDate).result

\* the entries of the accepted parses among those settled since the last
\* flush, in the order they settled
RECURSIVE LogTexts(_)
LogTexts(log) ==
    IF log = <<>> THEN <<>> ELSE <<Head(log).text>> \o LogTexts(Tail(log))

C10_RefreshResolvesAfterItsParses ==
    /\ lastOp.op = "refresh" => \A t \in parses : t.cycle # lastOp.cycle
    /\ (lastOp.op = "export" /\ lastOp.cycle = cycle /\ loaded) =>
          Len(lastOp.result) >= Len(ClaimedExport(CycleEntries(vault, accounts),
                                             lastOp.startDate, lastOp.endDate))

====
